---- MODULE Spec2Model ----
(***************************************************************************)
(* Model of the quiz session engine of src/quiz.py (class QuizEngine) and  *)
(* of the callers that drive it.                                           *)
(***************************************************************************)
EXTENDS Integers, Sequences, FiniteSets

VARIABLES questions, current_question, score, start_time, question_times,
          user_answers, call, ret, question,
          scores, board,
          cli_pc, use_timer, time_limit, question_data,
          screen, workers, after_queue, current_question_data, selected_answer

\* the fields of QuizEngine
engine == <<questions, current_question, score, start_time, question_times,
            user_answers>>
\* the score file and the leaderboard last displayed
store == <<scores, board>>
\* CLIInterface: where _start_quiz / _play_quiz stand, and their locals
cli == <<cli_pc, use_timer, time_limit, question_data>>
\* GUIInterface: the screen shown, the worker threads, the callbacks queued
\* with root.after, and the fields current_question_data and selected_answer
gui == <<screen, workers, after_queue, current_question_data, selected_answer>>
vars == <<questions, current_question, score, start_time, question_times,
          user_answers, call, ret, question,
          scores, board,
          cli_pc, use_timer, time_limit, question_data,
          screen, workers, after_queue, current_question_data, selected_answer>>

(* ---------------------------------------------------------------- bounds *)
MaxQuestions == 2
MaxIncorrect == 2
MaxTime == 1
MaxClock == 1
\* entries the score file may hold
MaxScores == 6

(* ---------------------------------------------------------------- values *)
\* Python's None, as the value of QuizEngine.start_time before any load
NoTime == 0 - 1
Clock == 1 .. MaxClock
TimeValues == 0 .. MaxTime
\* answer indices a caller may pass: one below every -len, the sentinel -1,
\* every index of the longest answer list, and one past its end
AnswerIndices == {0 - (MaxIncorrect + 2), 0 - 1} \cup (0 .. (MaxIncorrect + 1))

\* quiz_scores.json before the first save
NoFile == [exists |-> FALSE, entries |-> <<>>]
\* time_limit = 30 of _start_quiz
DefaultTimeLimit == 30
\* the least time limit _start_quiz accepts
MinTimeLimit == 10
\* 'type': 'multiple': the question bank sends three incorrect answers
MultipleChoiceIncorrect == 3
\* the choices 1-4 the command line accepts
CliChoices == 4

NoneVal == [kind |-> "none"]
BoolVal(b) == [kind |-> "bool", val |-> b]
RaiseVal(e) == [kind |-> "raise", val |-> e]
NoArgs(op) == [op |-> op, answer_index |-> 0, time_taken |-> 0]
\* the call load_questions(qs)
LoadCall(qs) == [op |-> "load_questions", answer_index |-> 0, time_taken |-> 0,
                 questions |-> qs]

(* ------------------------------------------------------------- rationals *)
RECURSIVE GCD(_, _)
GCD(a, b) == IF b = 0 THEN a ELSE GCD(b, a % b)

\* the number n/d (d > 0, n >= 0) in lowest terms
Rat(n, d) == [num |-> n \div GCD(n, d), den |-> d \div GCD(n, d)]
RatMul(r, k) == Rat(r.num * k, r.den)
RatZero == [num |-> 0, den |-> 1]

RECURSIVE SumSeq(_)
SumSeq(s) == IF s = <<>> THEN 0 ELSE Head(s) + SumSeq(Tail(s))

Min(a, b) == IF a <= b THEN a ELSE b

(* ------------------------------------------------------------- questions *)
\* text of answer j of question i
AnswerText(i, j) == 10 * i + j

\* a parsed question as APIHandler._parse_questions builds it, with k
\* incorrect answers
ParsedQuestion(i, k) ==
    [question |-> i,
     correct_answer |-> AnswerText(i, 0),
     incorrect_answers |-> [j \in 1 .. k |-> AnswerText(i, j)],
     category |-> "General",
     difficulty |-> "easy"]

\* the question lists a caller loads: n questions, 0 <= n <= MaxQuestions,
\* question i with min(i, MaxIncorrect) incorrect answers
QuestionLists ==
    { [i \in 1 .. n |-> ParsedQuestion(i, Min(i, MaxIncorrect))] : n \in 0 .. MaxQuestions }

(* ---------------------------------------------------------- Python lists *)
\* seq[i] with Python's index rules: negative indices count from the end
InRange(s, i) == (0 - Len(s)) <= i /\ i < Len(s)
PyIndex(s, i) == IF i >= 0 THEN s[i + 1] ELSE s[Len(s) + i + 1]

\* the position counted from 1
ListIndexOneBased(s, x) == CHOOSE k \in 1 .. Len(s) :
                              s[k] = x /\ \A m \in 1 .. (k - 1) : s[m] # x

\* list.index(x): 0-based position of the first occurrence
ListIndex(s, x) == (CHOOSE k \in 1 .. Len(s) :
                       s[k] = x /\ \A m \in 1 .. (k - 1) : s[m] # x) - 1

\* the outcomes of random.shuffle: every permutation of the list
ShufflePerms(n) == { p \in [1 .. n -> 1 .. n] : \A a, b \in 1 .. n : p[a] = p[b] => a = b }
Shuffles(s) == { [k \in 1 .. Len(s) |-> s[p[k]]] : p \in ShufflePerms(Len(s)) }

(* ----------------------------------------------------------- the engine *)
Init ==
    /\ questions = <<>>
    /\ current_question = 0
    /\ score = 0
    /\ start_time = NoTime
    /\ question_times = <<>>
    /\ user_answers = <<>>
    /\ call = NoArgs("__init__")
    /\ ret = NoneVal
    /\ question = NoneVal
    /\ scores = NoFile
    /\ board = <<>>
    /\ cli_pc = "menu"
    /\ use_timer = FALSE
    /\ time_limit = DefaultTimeLimit
    /\ question_data = NoneVal
    /\ screen = "menu"
    /\ workers = <<>>
    /\ after_queue = <<>>
    /\ current_question_data = NoneVal
    /\ selected_answer = 0

\* load_questions without line 82: the score of the previous session stays
LoadQuestionsKeepScore(qs, now) ==
    /\ questions' = qs
    /\ current_question' = 0
    /\ start_time' = now
    /\ question_times' = <<>>
    /\ user_answers' = <<>>
    /\ call' = LoadCall(qs)
    /\ ret' = NoneVal
    /\ question' = NoneVal
    /\ UNCHANGED score

\* load_questions without line 84: the times of the previous session stay
LoadQuestionsKeepTimes(qs, now) ==
    /\ questions' = qs
    /\ current_question' = 0
    /\ score' = 0
    /\ start_time' = now
    /\ user_answers' = <<>>
    /\ call' = LoadCall(qs)
    /\ ret' = NoneVal
    /\ question' = NoneVal
    /\ UNCHANGED question_times

\* load_questions without line 85: the answers of the previous session stay
LoadQuestionsKeepHistory(qs, now) ==
    /\ questions' = qs
    /\ current_question' = 0
    /\ score' = 0
    /\ start_time' = now
    /\ question_times' = <<>>
    /\ call' = LoadCall(qs)
    /\ ret' = NoneVal
    /\ question' = NoneVal
    /\ UNCHANGED user_answers

LoadQuestions(qs, now) ==
    /\ questions' = qs
    /\ current_question' = 0
    /\ score' = 0
    /\ start_time' = now
    /\ question_times' = <<>>
    /\ user_answers' = <<>>
    /\ call' = LoadCall(qs)
    /\ ret' = NoneVal
    /\ question' = NoneVal

\* self.questions[0] in place of the question at the cursor
FirstStoredQuestion == questions[1]

\* self.questions[self.current_question]
StoredQuestion == questions[current_question + 1]

\* lines 91-100 of get_current_question for one outcome of the shuffle
Present(q, all_answers) ==
    [kind |-> "question",
     question |-> q.question,
     correct_answer |-> q.correct_answer,
     incorrect_answers |-> q.incorrect_answers,
     category |-> q.category,
     difficulty |-> q.difficulty,
     shuffled_answers |-> all_answers,
     correct_index |-> ListIndex(all_answers, q.correct_answer)]

\* the values get_current_question may return in the current state
CurrentQuestionResults ==
    IF current_question >= Len(questions)
    THEN { NoneVal }
    ELSE { Present(StoredQuestion, a) :
             a \in Shuffles(StoredQuestion.incorrect_answers
                              \o <<StoredQuestion.correct_answer>>) }

\* lines 94-95 without the copy: the correct answer is appended to the stored
\* incorrect_answers and that list is shuffled in place
GetCurrentQuestionInPlace ==
    \E r \in CurrentQuestionResults :
        /\ ret' = r
        /\ call' = NoArgs("get_current_question")
        /\ question' = NoneVal
        /\ questions' = IF r = NoneVal THEN questions
                        ELSE [questions EXCEPT ![current_question + 1].incorrect_answers =
                                                   r.shuffled_answers]
        /\ UNCHANGED <<current_question, score, start_time, question_times, user_answers>>

GetCurrentQuestion ==
    \E r \in CurrentQuestionResults :
        /\ ret' = r
        /\ call' = NoArgs("get_current_question")
        /\ question' = NoneVal
        /\ UNCHANGED engine

\* line 119 recording the default of the parameter instead of the argument
AnswerRecordDefaultTime(q, answer_index, is_correct, time_taken) ==
    [question |-> q.question,
     user_answer |-> PyIndex(q.shuffled_answers, answer_index),
     correct_answer |-> q.correct_answer,
     is_correct |-> is_correct,
     time_taken |-> 0]

AnswerRecord(q, answer_index, is_correct, time_taken) ==
    [question |-> q.question,
     user_answer |-> PyIndex(q.shuffled_answers, answer_index),
     correct_answer |-> q.correct_answer,
     is_correct |-> is_correct,
     time_taken |-> time_taken]

\* the early return placed after line 122: the time is logged first
SubmitRejectedTimed(answer_index, time_taken) ==
    /\ ret' = BoolVal(FALSE)
    /\ question' = NoneVal
    /\ question_times' = Append(question_times, time_taken)
    /\ UNCHANGED <<questions, current_question, score, start_time, user_answers>>

\* the early return placed after line 123: the cursor advances first
SubmitRejectedAdvance(answer_index, time_taken) ==
    /\ ret' = BoolVal(FALSE)
    /\ question' = NoneVal
    /\ current_question' = current_question + 1
    /\ UNCHANGED <<questions, score, start_time, question_times, user_answers>>

\* lines 104-105: no active question
SubmitRejected(answer_index, time_taken) ==
    /\ ret' = BoolVal(FALSE)
    /\ question' = NoneVal
    /\ UNCHANGED engine

\* line 111 without the test of line 110
NewScoreAlways(is_correct) == score + 1

\* lines 110-111
NewScore(is_correct) == IF is_correct THEN score + 1 ELSE score

\* the correct answer taken to be where line 94 appended it, unshuffled
IsCorrectLast(answer_index, q) == answer_index = Len(q.shuffled_answers) - 1

\* line 108 comparing the positions the way the subscript of line 116 counts
\* them, an index past the end wrapping round
IsCorrectWrapping(answer_index, q) ==
    answer_index % Len(q.shuffled_answers) = q.correct_index

\* line 108
IsCorrect(answer_index, q) == answer_index = q.correct_index

\* lines 108-125 for the presented question q that line 107 derived; the
\* subscript of line 116 raises IndexError after line 111 has run
SubmitGraded(q, answer_index, time_taken) ==
    LET is_correct == IsCorrect(answer_index, q) IN
    /\ score' = NewScore(is_correct)
    /\ IF InRange(q.shuffled_answers, answer_index)
       THEN /\ question' = q
            /\ user_answers' = Append(user_answers,
                   AnswerRecord(q, answer_index, is_correct, time_taken))
            /\ question_times' = Append(question_times, time_taken)
            /\ current_question' = current_question + 1
            /\ ret' = BoolVal(is_correct)
            /\ UNCHANGED <<questions, start_time>>
       ELSE /\ question' = NoneVal
            /\ ret' = RaiseVal("IndexError")
            /\ UNCHANGED <<questions, current_question, start_time,
                           question_times, user_answers>>

\* submit_answer(answer_index, time_taken); after a graded call, question
\* holds the method's local `question`, the presented question it derived
SubmitAnswer(answer_index, time_taken) ==
    /\ call' = [op |-> "submit_answer", answer_index |-> answer_index,
                time_taken |-> time_taken]
    /\ IF current_question >= Len(questions)
       THEN SubmitRejected(answer_index, time_taken)
       ELSE \E q \in CurrentQuestionResults : SubmitGraded(q, answer_index, time_taken)

\* the pair get_progress returns
Progress == <<current_question, Len(questions)>>

GetProgress ==
    /\ ret' = [kind |-> "progress", position |-> Progress[1], total |-> Progress[2]]
    /\ call' = NoArgs("get_progress")
    /\ question' = NoneVal
    /\ UNCHANGED engine

\* line 137 without the factor 100
PercentageAsFraction(sc, qs) ==
    IF qs # <<>> THEN Rat(sc, Len(qs)) ELSE RatZero

\* line 137
Percentage(sc, qs) ==
    IF qs # <<>> THEN RatMul(Rat(sc, Len(qs)), 100) ELSE RatZero

\* line 132
AverageTime(times) ==
    IF times # <<>> THEN Rat(SumSeq(times), Len(times)) ELSE RatZero

\* line 131, time.time() returning now
TotalTime(now) ==
    IF start_time # NoTime /\ start_time # 0 THEN now - start_time ELSE 0

GetFinalResults(now) ==
    /\ ret' = [kind |-> "results",
               score |-> score,
               total_questions |-> Len(questions),
               percentage |-> Percentage(score, questions),
               total_time |-> TotalTime(now),
               average_time_per_question |-> AverageTime(question_times),
               user_answers |-> user_answers]
    /\ call' = NoArgs("get_final_results")
    /\ question' = NoneVal
    /\ UNCHANGED engine

(* ------------------------------------------------- any caller of the API *)
load_questions ==
    /\ \E qs \in QuestionLists, now \in Clock : LoadQuestions(qs, now)
    /\ UNCHANGED <<store, cli, gui>>

get_current_question == GetCurrentQuestion /\ UNCHANGED <<store, cli, gui>>

submit_answer ==
    /\ \E index \in AnswerIndices, time_taken \in TimeValues :
          SubmitAnswer(index, time_taken)
    /\ UNCHANGED <<store, cli, gui>>

get_progress == GetProgress /\ UNCHANGED <<store, cli, gui>>

\* the wall clock does not run backwards between load and result
get_final_results ==
    /\ \E now \in Clock : (start_time # NoTime => now >= start_time) /\ GetFinalResults(now)
    /\ UNCHANGED <<store, cli, gui>>

Next ==
    \/ load_questions
    \/ get_current_question
    \/ submit_answer
    \/ get_progress
    \/ get_final_results

Spec == Init /\ [][Next]_vars

(* --------------------------------------------- the scenario of three questions *)
\* three questions, each with one correct and three incorrect answers
ScenarioQuestions == [i \in 1 .. 3 |-> ParsedQuestion(i, 3)]

ScnLoad ==
    /\ call.op = "__init__"
    /\ \E now \in Clock : LoadQuestions(ScenarioQuestions, now)
    /\ UNCHANGED <<store, cli, gui>>

ScnPresent ==
    /\ call.op \in {"load_questions", "submit_answer"}
    /\ GetCurrentQuestion
    /\ UNCHANGED <<store, cli, gui>>

\* the caller answers the first and the third question with the correct_index
\* it was shown and the second with the sentinel -1
ScnSubmit ==
    /\ call.op = "get_current_question"
    /\ ret.kind = "question"
    /\ \E time_taken \in TimeValues :
          SubmitAnswer(IF current_question = 1 THEN 0 - 1 ELSE ret.correct_index,
                       time_taken)
    /\ UNCHANGED <<store, cli, gui>>

ScnResults ==
    /\ call.op = "get_current_question"
    /\ ret = NoneVal
    /\ \E now \in Clock : now >= start_time /\ GetFinalResults(now)
    /\ UNCHANGED <<store, cli, gui>>

NextScenario == ScnLoad \/ ScnPresent \/ ScnSubmit \/ ScnResults

SpecScenario == Init /\ [][NextScenario]_vars

(* ---------------------------------------------------------------- claims *)
SessionComplete == current_question >= Len(questions)
LastAnswer == user_answers[Len(user_answers)]
\* the answer index of the call lies in [0, len(shuffled_answers)) of the
\* question at the current position
ValidIndex(i) == 0 <= i /\ i < Len(StoredQuestion.incorrect_answers) + 1

\* C1: a submit_answer call made when position >= total returns False and
\* leaves score, position, user_answers and question_times unchanged.
C1_SubmitAfterCompletion ==
    [][(call'.op = "submit_answer" /\ SessionComplete)
        => /\ ret' = BoolVal(FALSE)
           /\ score' = score
           /\ current_question' = current_question
           /\ user_answers' = user_answers
           /\ question_times' = question_times]_vars

\* a completed session with a positive score has just rejected a submission
C1_Witness ==
    /\ call.op = "submit_answer"
    /\ question = NoneVal
    /\ ret = BoolVal(FALSE)
    /\ Len(questions) > 0
    /\ current_question = Len(questions)
    /\ score > 0

\* C2: with a question active, submit_answer with an index outside
\* [0, len(shuffled_answers)) never raises: it returns False, keeps score,
\* appends one record with is_correct false and advances position by one.
C2_OutOfRangeNeverRaises ==
    [][(call'.op = "submit_answer" /\ ~SessionComplete /\ ~ValidIndex(call'.answer_index))
        => /\ ret' = BoolVal(FALSE)
           /\ score' = score
           /\ Len(user_answers') = Len(user_answers) + 1
           /\ ~LastAnswer'.is_correct
           /\ current_question' = current_question + 1]_vars

\* C3: for an index in [0, len(shuffled_answers)) submitted while a question
\* is active, the returned boolean equals answer_index == correct_index of the
\* presented question submit_answer derived, and score grows by one exactly
\* when that boolean is true.
C3_GradesAgainstDerivedQuestion ==
    [][(call'.op = "submit_answer" /\ ~SessionComplete /\ ValidIndex(call'.answer_index))
        => /\ question'.kind = "question"
           /\ question'.question = questions[current_question + 1].question
           /\ ret' = BoolVal(call'.answer_index = question'.correct_index)
           /\ score' = score + (IF ret'.val THEN 1 ELSE 0)]_vars

\* a valid index was graded correct after an earlier answer was graded wrong
C3_Witness ==
    /\ call.op = "submit_answer"
    /\ call.answer_index >= 0
    /\ question.kind = "question"
    /\ ret = BoolVal(TRUE)
    /\ score = 1
    /\ Len(user_answers) = 2

\* C4: the shuffle submit_answer grades against is the one the preceding
\* get_current_question call at the same position returned, so submitting
\* the index displayed as correct is graded correct.
C4_GradesDisplayedShuffle ==
    [][(/\ call.op = "get_current_question"
        /\ ret.kind = "question"
        /\ call'.op = "submit_answer"
        /\ question'.kind = "question")
        => /\ question'.shuffled_answers = ret.shuffled_answers
           /\ question'.correct_index = ret.correct_index
           /\ (call'.answer_index = ret.correct_index => ret' = BoolVal(TRUE))]_vars

\* C5: score <= number of loaded questions, and score is the number of
\* entries of user_answers whose is_correct is true.
C5_ScoreCountsCorrect ==
    /\ score <= Len(questions)
    /\ score = Cardinality({ i \in DOMAIN user_answers : user_answers[i].is_correct })

\* the history holds a correct and an incorrect answer
C5_Witness ==
    /\ score >= 1
    /\ Len(user_answers) > score
    /\ \E i \in DOMAIN user_answers : ~user_answers[i].is_correct

\* C6: between two load_questions calls the total reported by get_progress
\* never changes, and the position never decreases and never exceeds total.
C6_ProgressMonotone ==
    [][call'.op # "load_questions"
        => /\ Progress'[2] = Progress[2]
           /\ Progress'[1] >= Progress[1]
           /\ Progress'[1] <= Progress'[2]]_vars

\* get_progress reports a completed session of at least two questions
C6_Witness ==
    /\ call.op = "get_progress"
    /\ ret.position = ret.total
    /\ ret.total >= 2

\* C7: get_current_question returns None iff position == total, and
\* otherwise the question stored at index position.
C7_NoneIffComplete ==
    /\ (NoneVal \in CurrentQuestionResults) <=> (current_question = Len(questions))
    /\ \A r \in CurrentQuestionResults :
          r # NoneVal =>
             /\ current_question < Len(questions)
             /\ r.question = questions[current_question + 1].question
             /\ r.correct_answer = questions[current_question + 1].correct_answer
             /\ r.incorrect_answers = questions[current_question + 1].incorrect_answers
    /\ call.op = "get_current_question" => ret \in CurrentQuestionResults

\* get_current_question presented the second question of a session
C7_Witness ==
    /\ call.op = "get_current_question"
    /\ ret.kind = "question"
    /\ current_question = 1
    /\ ret.question = 2

\* C8: get_final_results reports percentage 0 for zero loaded questions and
\* otherwise 100 * score / total_questions, which lies in [0, 100].
C8_Percentage ==
    ret.kind = "results" =>
       /\ ret.total_questions = Len(questions)
       /\ ret.score = score
       /\ Len(questions) = 0 => (ret.percentage.num = 0 /\ ret.percentage.den = 1)
       /\ Len(questions) > 0 =>
             ret.percentage.num * Len(questions) = 100 * score * ret.percentage.den
       /\ 0 <= ret.percentage.num
       /\ ret.percentage.den > 0
       /\ ret.percentage.num <= 100 * ret.percentage.den

\* results of a session with one of two questions answered correctly
C8_Witness ==
    /\ ret.kind = "results"
    /\ Len(questions) = 2
    /\ score = 1

\* C9: three questions with four answers each; the displayed correct index
\* for Q1 makes score 1, the sentinel -1 for Q2 keeps score 1 and records an
\* incorrect answer, the displayed correct index for Q3 makes score 2, and
\* the final results are score 2 of 3 questions, percentage 200/3.
C9_Scenario ==
    questions = ScenarioQuestions =>
       /\ (call.op = "submit_answer" /\ current_question = 1) => score = 1
       /\ (call.op = "submit_answer" /\ current_question = 2)
             => (score = 1 /\ ~user_answers[2].is_correct)
       /\ (call.op = "submit_answer" /\ current_question = 3) => score = 2
       /\ ret.kind = "results"
             => /\ ret.score = 2
                /\ ret.total_questions = 3
                /\ ret.percentage = Rat(200, 3)

\* C10: after load_questions([]) the session is complete at once:
\* get_current_question returns None, get_progress returns (0, 0), and
\* get_final_results reports score 0, total 0, percentage 0 and average
\* time 0 without raising.
C10_EmptySession ==
    (questions = <<>> /\ start_time # NoTime) =>
       /\ SessionComplete
       /\ ret.kind # "raise"
       /\ call.op = "get_current_question" => ret = NoneVal
       /\ call.op = "get_progress" => (ret.position = 0 /\ ret.total = 0)
       /\ call.op = "get_final_results"
             => /\ ret.score = 0
                /\ ret.total_questions = 0
                /\ ret.percentage = RatZero
                /\ ret.average_time_per_question = RatZero

\* results were taken from a session loaded with the empty list
C10_Witness ==
    /\ questions = <<>>
    /\ start_time # NoTime
    /\ call.op = "get_final_results"
    /\ ret.kind = "results"

\* the elements of a sequence, and how often v occurs in it
Range(s) == { s[k] : k \in DOMAIN s }
Occurrences(s, v) == Cardinality({ k \in DOMAIN s : s[k] = v })

\* C11: every presented question has shuffled_answers that is a permutation
\* of incorrect_answers plus correct_answer (same length, the correct answer
\* exactly once) and correct_index points at the correct answer, for every
\* outcome of the shuffle.
C11_ShuffleIsPermutation ==
    \A r \in CurrentQuestionResults \cup {ret, question} :
       r.kind = "question" =>
          LET all == r.incorrect_answers \o <<r.correct_answer>> IN
          /\ Len(r.shuffled_answers) = Len(r.incorrect_answers) + 1
          /\ \A v \in Range(all) \cup Range(r.shuffled_answers) :
                Occurrences(r.shuffled_answers, v) = Occurrences(all, v)
          /\ Occurrences(r.shuffled_answers, r.correct_answer) = 1
          /\ 0 <= r.correct_index
          /\ r.correct_index < Len(r.shuffled_answers)
          /\ r.shuffled_answers[r.correct_index + 1] = r.correct_answer

\* a question was presented with the correct answer moved away from the end
C11_Witness ==
    /\ call.op = "get_current_question"
    /\ ret.kind = "question"
    /\ Len(ret.shuffled_answers) = 3
    /\ ret.correct_index = 1

\* C12: load_questions, called in any state, leaves position 0, score 0,
\* empty question_times and user_answers, and the question list given.
C12_LoadResets ==
    [][call'.op = "load_questions"
        => /\ current_question' = 0
           /\ score' = 0
           /\ question_times' = <<>>
           /\ user_answers' = <<>>
           /\ questions' = call'.questions]_vars

\* a list of questions has just been loaded
C12_Witness ==
    /\ call.op = "load_questions"
    /\ Len(questions) = 2
    /\ current_question = 0
    /\ user_answers = <<>>

\* C13: the record appended for an answer index outside
\* [0, len(shuffled_answers)) carries a not-found indicator as user_answer,
\* never the text of one of the shuffled answers.
C13_NotFoundIndicator ==
    [][(/\ call'.op = "submit_answer"
        /\ ~SessionComplete
        /\ ~ValidIndex(call'.answer_index)
        /\ Len(user_answers') = Len(user_answers) + 1)
        => LastAnswer'.user_answer \notin Range(question'.shuffled_answers)]_vars

\* C16: every submit_answer call made at position p < total moves position
\* to p + 1 and appends one entry to user_answers and the caller's time_taken
\* to question_times; the session is complete exactly after the call at
\* p = total - 1.
C16_SubmitAdvances ==
    [][(call'.op = "submit_answer" /\ ~SessionComplete)
        => /\ current_question' = current_question + 1
           /\ Len(user_answers') = Len(user_answers) + 1
           /\ question_times' = Append(question_times, call'.time_taken)
           /\ SessionComplete' <=> (current_question = Len(questions) - 1)]_vars

\* C17: get_current_question, get_progress and get_final_results leave
\* position, score, question_times, user_answers and the stored questions,
\* the order of their incorrect_answers included, unchanged.
C17_ReadsChangeNothing ==
    [][call'.op \in {"get_current_question", "get_progress", "get_final_results"}
        => /\ questions' = questions
           /\ current_question' = current_question
           /\ score' = score
           /\ start_time' = start_time
           /\ question_times' = question_times
           /\ user_answers' = user_answers]_vars

\* a question was presented in an order other than the stored one
C17_Witness ==
    /\ call.op = "get_current_question"
    /\ ret.kind = "question"
    /\ ret.shuffled_answers # ret.incorrect_answers \o <<ret.correct_answer>>
    /\ StoredQuestion.incorrect_answers = ret.incorrect_answers

\* C18: the answers reported by get_final_results are the records in
\* submission order: record i carries the question text and the correct
\* answer of the i-th loaded question and the i-th entry of question_times.
C18_AnswersInOrder ==
    /\ Len(user_answers) >= current_question
    /\ \A i \in 1 .. current_question :
          /\ user_answers[i].question = questions[i].question
          /\ user_answers[i].correct_answer = questions[i].correct_answer
          /\ user_answers[i].time_taken = question_times[i]
    /\ ret.kind = "results" => ret.user_answers = user_answers

\* results of two answered questions with different times
C18_Witness ==
    /\ ret.kind = "results"
    /\ Len(ret.user_answers) = 2
    /\ ret.user_answers[1].time_taken # ret.user_answers[2].time_taken

(* ------------------------------------------------------- the score store *)
\* top_n = 5 of display_high_scores, and the slice [:5] of show_high_scores
TopN == 5
GuiTopN == 5

\* a result of get_final_results as the front ends hand it to save_score
SessionResult(sc, n, total_time) ==
    [kind |-> "results",
     score |-> sc,
     total_questions |-> n,
     percentage |-> RatMul(Rat(sc, n), 100),
     total_time |-> total_time,
     average_time_per_question |-> RatZero,
     user_answers |-> <<>>]

\* the results saved: two full scores of different duration and a half score
SavedResults == { SessionResult(2, 2, 1), SessionResult(2, 2, 2), SessionResult(1, 2, 1) }

\* lines 177-183; the date is later than that of every stored entry
ScoreEntry(results, date) ==
    [date |-> date,
     score |-> results.score,
     total_questions |-> results.total_questions,
     percentage |-> results.percentage,
     total_time |-> results.total_time]

\* the call save_score(results)
SaveCall(results) == [op |-> "save_score", answer_index |-> 0, time_taken |-> 0,
                      results |-> results]

\* line 187 writing the new entry alone: the entries read are dropped
SavedFileOverwritten(results) ==
    [exists |-> TRUE, entries |-> <<ScoreEntry(results, 1)>>]

\* lines 168-190, the file missing or readable
SavedFile(results) ==
    LET stored == IF scores.exists THEN scores.entries ELSE <<>> IN
    [exists |-> TRUE, entries |-> Append(stored, ScoreEntry(results, Len(stored) + 1))]

\* Utilities.save_score(results)
SaveScore(results) ==
    /\ scores' = SavedFile(results)
    /\ call' = SaveCall(results)
    /\ UNCHANGED board

RatLess(a, b) == a.num * b.den < b.num * a.den

\* the key sorts both components the same way: the longer session first
SortKeyGreaterSlowFirst(a, b) ==
    \/ RatLess(b.percentage, a.percentage)
    \/ a.percentage = b.percentage /\ a.total_time > b.total_time

\* (percentage, -total_time) of a is greater than that of b
SortKeyGreater(a, b) ==
    \/ RatLess(b.percentage, a.percentage)
    \/ a.percentage = b.percentage /\ (0 - a.total_time) > (0 - b.total_time)

\* e put into a list sorted by descending key, after the entries whose key
\* is not smaller (sorted() is stable, with reverse=True too)
InsertByKey(e, sorted) ==
    LET smaller == { k \in DOMAIN sorted : SortKeyGreater(e, sorted[k]) }
        at == IF smaller = {} THEN Len(sorted) + 1
              ELSE CHOOSE k \in smaller : \A m \in smaller : k <= m
    IN SubSeq(sorted, 1, at - 1) \o <<e>> \o SubSeq(sorted, at, Len(sorted))

\* sorted(scores, key=lambda x: (x['percentage'], -x['total_time']), reverse=True)
RECURSIVE SortedScores(_)
SortedScores(entries) ==
    IF entries = <<>> THEN <<>>
    ELSE InsertByKey(entries[Len(entries)], SortedScores(SubSeq(entries, 1, Len(entries) - 1)))

\* the entries listed: sorted_scores[:top_n], nothing without a file
HighScoreRows(top_n) ==
    IF ~scores.exists \/ scores.entries = <<>> THEN <<>>
    ELSE SubSeq(SortedScores(scores.entries), 1, Min(top_n, Len(scores.entries)))

\* Utilities.display_high_scores()
DisplayHighScores ==
    /\ board' = HighScoreRows(TopN)
    /\ call' = NoArgs("display_high_scores")
    /\ UNCHANGED scores

\* GUIInterface.show_high_scores()
GuiShowHighScores ==
    /\ board' = HighScoreRows(GuiTopN)
    /\ call' = NoArgs("show_high_scores")
    /\ UNCHANGED scores

save_score ==
    /\ Len(scores.entries) < MaxScores
    /\ \E results \in SavedResults : SaveScore(results)
    /\ UNCHANGED <<engine, ret, question, cli, gui>>

display_high_scores == DisplayHighScores /\ UNCHANGED <<engine, ret, question, cli, gui>>

show_high_scores == GuiShowHighScores /\ UNCHANGED <<engine, ret, question, cli, gui>>

NextScores == save_score \/ display_high_scores \/ show_high_scores

SpecScores == Init /\ [][NextScores]_vars

\* a may stand before b on the leaderboard
MayPrecede(a, b) ==
    \/ RatLess(b.percentage, a.percentage)
    \/ a.percentage = b.percentage /\ a.total_time <= b.total_time

\* C15: the leaderboard lists the stored entries by percentage descending and,
\* for equal percentage, by total_time ascending, and shows the first 5 of
\* that order at most.
C15_LeaderboardOrder ==
    [][call'.op \in {"display_high_scores", "show_high_scores"}
        => /\ Len(board') = Min(Len(scores.entries), 5)
           /\ \A i, j \in DOMAIN board' :
                 /\ i < j => MayPrecede(board'[i], board'[j])
                 /\ i # j => board'[i] # board'[j]
           /\ Range(board') \subseteq Range(scores.entries)
           /\ \A e \in Range(scores.entries) \ Range(board') :
                 \A i \in DOMAIN board' : MayPrecede(board'[i], e)]_vars

\* five of six entries are listed, a faster full score above a slower one
\* that was saved earlier
C15_Witness ==
    /\ call.op \in {"display_high_scores", "show_high_scores"}
    /\ Len(scores.entries) = 6
    /\ Len(board) = 5
    /\ \E i \in 1 .. 4 :
          /\ board[i].percentage = board[i + 1].percentage
          /\ board[i].total_time < board[i + 1].total_time
          /\ board[i].date > board[i + 1].date

(* ------------------------------------------------- the command-line quiz *)
\* what fetch_questions gives: a parsed list of multiple-choice questions,
\* or an exception
FetchResults ==
    { [ok |-> TRUE, questions |-> [i \in 1 .. n |-> ParsedQuestion(i, MultipleChoiceIncorrect)]] :
        n \in 0 .. MaxQuestions }
    \cup { [ok |-> FALSE, questions |-> <<>>] }

\* what the user types at "Enter your choice (1-4): "
UserInputs ==
    { [numeric |-> TRUE, value |-> v] : v \in 0 .. (CliChoices + 1) }
    \cup { [numeric |-> FALSE, value |-> 0] }

\* the time the answer took: within every limit, or beyond the limit in force
ElapsedChoices == {0, time_limit + 1}

\* lines 340-343: int(user_input) - 1, or -1 for a ValueError
ParseChoice(typed) == IF typed.numeric THEN typed.value - 1 ELSE 0 - 1

\* lines 336-343 without the test of elapsed
ChosenIndexNoDeadline(typed, t) ==
    IF use_timer THEN ParseChoice(typed) ELSE typed.value - 1

\* lines 331-347: answer_index
ChosenIndex(typed, t) ==
    IF use_timer
    THEN IF t > time_limit THEN 0 - 1 ELSE ParseChoice(typed)
    ELSE typed.value - 1

\* line 351 without the test of line 350
SubmittedIndexUnchecked(answer_index) == answer_index

\* lines 350-358: the index handed to submit_answer
SubmittedIndex(answer_index) ==
    IF 0 <= answer_index /\ answer_index < CliChoices THEN answer_index ELSE 0 - 1

\* _start_quiz, lines 276-300: the timer is configured, the questions are
\* fetched and, unless none came or the fetch failed, loaded
CliStartQuiz ==
    /\ cli_pc = "menu"
    /\ \E timer \in BOOLEAN, limit \in {MinTimeLimit}, fetched \in FetchResults, now \in Clock :
          IF fetched.ok /\ fetched.questions # <<>>
          THEN /\ LoadQuestions(fetched.questions, now)
               /\ use_timer' = timer
               /\ time_limit' = IF timer THEN limit ELSE DefaultTimeLimit
               /\ cli_pc' = "play"
          ELSE /\ UNCHANGED <<engine, ret, question, use_timer, time_limit, cli_pc>>
               /\ call' = NoArgs("_start_quiz")
    /\ UNCHANGED <<question_data, store, gui>>

\* _play_quiz, lines 311-327: the question is fetched from the engine and
\* shown, or the loop is left; get_progress at line 315 only reads Progress
CliPresent ==
    /\ cli_pc = "play"
    /\ GetCurrentQuestion
    /\ question_data' = ret'
    /\ cli_pc' = IF ret' = NoneVal THEN "results" ELSE "input"
    /\ UNCHANGED <<use_timer, time_limit, store, gui>>

\* _play_quiz, lines 329-364: the answer is read and submitted; without the
\* timer validate_number_input asks until it gets a number from 1 to 4; an
\* exception of the engine ends _start_quiz at line 302; question_data is
\* assigned at line 311 before it is read again
CliAnswer ==
    /\ cli_pc = "input"
    /\ \E typed \in UserInputs, t \in ElapsedChoices :
          /\ ~use_timer => typed.numeric /\ 1 <= typed.value /\ typed.value <= CliChoices
          /\ SubmitAnswer(SubmittedIndex(ChosenIndex(typed, t)), t)
    /\ cli_pc' = IF ret'.kind = "raise" THEN "menu" ELSE "play"
    /\ question_data' = NoneVal
    /\ UNCHANGED <<use_timer, time_limit, store, gui>>

\* _show_results, lines 368-403: the results are computed and shown; the
\* save offered afterwards is the action save_score
CliShowResults ==
    /\ cli_pc = "results"
    /\ \E now \in Clock :
          /\ now >= start_time
          /\ GetFinalResults(now)
    /\ cli_pc' = "menu"
    /\ UNCHANGED <<use_timer, time_limit, question_data, store, gui>>

NextCLI == CliStartQuiz \/ CliPresent \/ CliAnswer \/ CliShowResults

SpecCLI == Init /\ [][NextCLI]_vars

\* C14: in the command-line loop every iteration presents the current
\* question and makes one submit_answer call that moves the position on by
\* one, so that n questions take n iterations, and get_final_results is
\* called only once the position has reached the total.
C14_CliLoop ==
    [][/\ cli_pc = "play" /\ current_question < Len(questions)
          => cli_pc' = "input" /\ question_data' \in CurrentQuestionResults
                               /\ question_data' # NoneVal
       /\ cli_pc = "input"
          => /\ call'.op = "submit_answer"
             /\ current_question' = current_question + 1
             /\ Len(user_answers') = Len(user_answers) + 1
             /\ cli_pc' = "play"
       /\ cli_pc' = "results" => current_question' = Len(questions')
       /\ call'.op = "get_final_results"
          => /\ current_question = Len(questions)
             /\ Len(user_answers) = Len(questions)
             /\ Len(questions) >= 1]_vars

\* a session of the greatest length has been played to its results
C14_Witness ==
    /\ cli_pc = "menu"
    /\ call.op = "get_final_results"
    /\ Len(questions) = MaxQuestions
    /\ Len(ret.user_answers) = MaxQuestions

\* C19: with the timer on, an answer that took longer than time_limit is
\* submitted as index -1 with the time measured, whatever was typed; it is
\* graded incorrect, the score stays, and the session moves to the next
\* question.
C19_TimeoutSubmitsSentinel ==
    [][cli_pc = "input" /\ use_timer /\ call'.time_taken > time_limit
        => /\ call'.op = "submit_answer"
           /\ call'.answer_index = 0 - 1
           /\ ret' = BoolVal(FALSE)
           /\ score' = score
           /\ current_question' = current_question + 1
           /\ ~LastAnswer'.is_correct
           /\ LastAnswer'.time_taken = call'.time_taken]_vars

\* a timed-out answer has been submitted and the next question is due
C19_Witness ==
    /\ cli_pc = "play"
    /\ use_timer
    /\ call.op = "submit_answer"
    /\ call.time_taken > time_limit
    /\ call.answer_index = 0 - 1
    /\ current_question < Len(questions)

(* ------------------------------------------------------ the window front *)
\* a thread running fetch_and_start_quiz: about to fetch, about to load the
\* questions fetched, or about to queue show_question
Worker(pc, qs) == [pc |-> pc, questions |-> qs]

\* the screen start_quiz leaves if it does not call show_loading
ScreenAfterStartNoLoading == "config"

\* the screen show_loading draws: a label and no button
ScreenAfterStart == "loading"

\* the buttons "Back to Menu" of the configuration and results screens
GuiShowMenu ==
    /\ screen \in {"config", "results"}
    /\ screen' = "menu"
    /\ call' = NoArgs("show_menu")
    /\ UNCHANGED <<engine, ret, question, store, cli, workers, after_queue,
                   current_question_data, selected_answer>>

\* the buttons "Start Quiz" of the menu and "Play Again" of the results
GuiShowQuizConfig ==
    /\ screen \in {"menu", "results"}
    /\ screen' = "config"
    /\ call' = NoArgs("show_quiz_config")
    /\ UNCHANGED <<engine, ret, question, store, cli, workers, after_queue,
                   current_question_data, selected_answer>>

\* start_quiz, the button of the configuration screen: the loading screen
\* replaces the form and a thread is started, or the number typed is no
\* number and an error box is shown
GuiStartQuiz ==
    /\ screen = "config"
    /\ \E valid \in BOOLEAN :
          IF valid
          THEN /\ screen' = ScreenAfterStart
               /\ workers' = Append(workers, Worker("fetch", <<>>))
          ELSE UNCHANGED <<screen, workers>>
    /\ call' = NoArgs("start_quiz")
    /\ UNCHANGED <<engine, ret, question, store, cli, after_queue,
                   current_question_data, selected_answer>>

\* workers with worker k replaced by w
WorkersWith(k, w) == [workers EXCEPT ![k] = w]

\* workers without worker k
WorkersWithout(k) == SubSeq(workers, 1, k - 1) \o SubSeq(workers, k + 1, Len(workers))

\* fetch_and_start_quiz, lines 609-618 and 624-626: the fetch returns
\* questions, or it returns none or fails and the thread queues the error box
\* and the configuration screen and ends
WorkerFetch ==
    /\ \E k \in DOMAIN workers, fetched \in FetchResults :
          /\ workers[k].pc = "fetch"
          /\ IF fetched.ok /\ fetched.questions # <<>>
             THEN /\ workers' = WorkersWith(k, Worker("load", fetched.questions))
                  /\ UNCHANGED after_queue
             ELSE /\ workers' = WorkersWithout(k)
                  /\ after_queue' = after_queue \o <<"showerror", "show_quiz_config">>
    /\ call' = NoArgs("fetch_questions")
    /\ UNCHANGED <<engine, ret, question, store, cli, screen,
                   current_question_data, selected_answer>>

\* fetch_and_start_quiz, line 621, in the thread
WorkerLoad ==
    /\ \E k \in DOMAIN workers, now \in Clock :
          /\ workers[k].pc = "load"
          /\ LoadQuestions(workers[k].questions, now)
          /\ workers' = WorkersWith(k, Worker("after", <<>>))
    /\ UNCHANGED <<store, cli, screen, after_queue, current_question_data,
                   selected_answer>>

\* fetch_and_start_quiz, line 622: show_question is queued and the thread ends
WorkerSchedule ==
    /\ \E k \in DOMAIN workers :
          /\ workers[k].pc = "after"
          /\ workers' = WorkersWithout(k)
    /\ after_queue' = Append(after_queue, "show_question")
    /\ call' = NoArgs("after")
    /\ UNCHANGED <<engine, ret, question, store, cli, screen,
                   current_question_data, selected_answer>>

\* show_question: the question at the cursor is fetched and drawn with no
\* answer selected, or show_results computes and draws the results;
\* get_progress at line 656 only reads Progress
ShowQuestion ==
    \E r \in CurrentQuestionResults :
        /\ current_question_data' = r
        /\ IF r = NoneVal
           THEN /\ \E now \in Clock : now >= start_time /\ GetFinalResults(now)
                /\ screen' = "results"
                /\ UNCHANGED selected_answer
           ELSE /\ ret' = r
                /\ call' = NoArgs("get_current_question")
                /\ question' = NoneVal
                /\ selected_answer' = 0 - 1
                /\ screen' = "question"
                /\ UNCHANGED engine

\* the main loop runs the callback queued first
GuiAfterCallback ==
    /\ after_queue # <<>>
    /\ after_queue' = Tail(after_queue)
    /\ IF Head(after_queue) = "show_question"
       THEN ShowQuestion
       ELSE /\ screen' = IF Head(after_queue) = "show_quiz_config" THEN "config" ELSE screen
            /\ call' = NoArgs(Head(after_queue))
            /\ UNCHANGED <<engine, ret, question, current_question_data, selected_answer>>
    /\ UNCHANGED <<store, cli, workers>>

\* elapsed_time of line 738: the answer came at once or a second later
GuiElapsed == {0, 1}

\* a radio button of the question screen is chosen
GuiSelect ==
    /\ screen = "question"
    /\ \E i \in 0 .. (Len(current_question_data.shuffled_answers) - 1) :
          selected_answer' = i
    /\ call' = NoArgs("select")
    /\ UNCHANGED <<engine, ret, question, store, cli, screen, workers, after_queue,
                   current_question_data>>

\* submit_answer of the window without lines 734-736
NothingSelectedIgnored == FALSE

\* line 734
NothingSelected == selected_answer = 0 - 1

\* submit_answer of the window, lines 732-743: a warning if nothing is
\* selected, else the answer is submitted and the result box is shown
GuiSubmit ==
    /\ screen = "question"
    /\ IF NothingSelected
       THEN /\ call' = NoArgs("showwarning")
            /\ UNCHANGED <<engine, ret, question, screen>>
       ELSE /\ \E t \in GuiElapsed : SubmitAnswer(selected_answer, t)
            /\ screen' = IF ret'.kind = "raise" THEN "question" ELSE "dialog"
    /\ UNCHANGED <<store, cli, workers, after_queue, current_question_data,
                   selected_answer>>

\* the result box is closed, line 745: the next question or the results
GuiDismiss ==
    /\ screen = "dialog"
    /\ ShowQuestion
    /\ UNCHANGED <<store, cli, workers, after_queue>>

NextGUI ==
    \/ GuiShowMenu
    \/ GuiShowQuizConfig
    \/ GuiStartQuiz
    \/ WorkerFetch
    \/ WorkerLoad
    \/ WorkerSchedule
    \/ GuiAfterCallback
    \/ GuiSelect
    \/ GuiSubmit
    \/ GuiDismiss

SpecGUI == Init /\ [][NextGUI]_vars

\* C20: in the window front end the thread's load_questions runs only on the
\* loading screen, with that thread the only one and no callback pending; the
\* engine calls of the main loop run only while no thread is in flight; at
\* most one thread is in flight; and while a question is on screen the session
\* is not reset.
C20_EngineAccessSerialized ==
    [][/\ call'.op = "load_questions"
          => screen = "loading" /\ Len(workers) = 1 /\ after_queue = <<>>
       /\ call'.op \in {"get_current_question", "submit_answer", "get_final_results"}
          => workers = <<>> /\ workers' = <<>>
       /\ Len(workers') <= 1
       /\ screen \in {"question", "dialog"}
          => /\ questions' = questions
             /\ start_time' = start_time
             /\ call'.op # "load_questions"
             /\ current_question' \in {current_question, current_question + 1}]_vars

\* a thread has loaded the questions of a second session and has not yet
\* queued show_question
C20_Witness ==
    /\ call.op = "load_questions"
    /\ Len(workers) = 1
    /\ workers[1].pc = "after"
    /\ screen = "loading"
    /\ current_question_data = NoneVal
    /\ selected_answer # 0

(* ------------------------------------------------------- further claims *)
\* C21: save_score appends one entry whose score, total_questions,
\* percentage and total_time are those of the results given, and keeps the
\* entries stored before unchanged and in their order; without a score file
\* the stored list becomes that one entry.
C21_SaveAppendsProjection ==
    [][call'.op = "save_score"
        => LET stored == IF scores.exists THEN scores.entries ELSE <<>>
               saved == scores'.entries
           IN /\ scores'.exists
              /\ Len(saved) = Len(stored) + 1
              /\ SubSeq(saved, 1, Len(stored)) = stored
              /\ saved[Len(saved)].score = call'.results.score
              /\ saved[Len(saved)].total_questions = call'.results.total_questions
              /\ saved[Len(saved)].percentage = call'.results.percentage
              /\ saved[Len(saved)].total_time = call'.results.total_time
              /\ ~scores.exists => Len(saved) = 1]_vars

\* a result was saved after two different ones
C21_Witness ==
    /\ call.op = "save_score"
    /\ Len(scores.entries) = 3
    /\ scores.entries[1].percentage # scores.entries[2].percentage
    /\ scores.entries[3].total_time # scores.entries[2].total_time

\* C22: every answer record is marked correct exactly if the answer text it
\* records is its correct answer text (the answers of a question are
\* pairwise distinct in this model), the sentinel -1 included.
C22_RecordConsistent ==
    \A k \in DOMAIN user_answers :
        user_answers[k].is_correct
            <=> user_answers[k].user_answer = user_answers[k].correct_answer

\* C23: a submit_answer that raises leaves score, position, user_answers and
\* question_times as they were.
C23_RaiseChangesNothing ==
    [][call'.op = "submit_answer" /\ ret'.kind = "raise"
        => /\ score' = score
           /\ current_question' = current_question
           /\ user_answers' = user_answers
           /\ question_times' = question_times
           /\ questions' = questions]_vars

\* a submit raised in a session that had a correct answer counted
C23_Witness ==
    /\ call.op = "submit_answer"
    /\ ret.kind = "raise"
    /\ score = 1
    /\ current_question = 1
    /\ Len(user_answers) = 1
    /\ current_question < Len(questions)

\* C24: user_answers, question_times and the position have the same length
\* and value, at most the number of questions.
C24_LogsMatchPosition ==
    /\ Len(user_answers) = current_question
    /\ Len(question_times) = current_question
    /\ current_question <= Len(questions)

\* a session of the greatest length has been answered to its end
C24_Witness ==
    /\ call.op = "submit_answer"
    /\ ret.kind = "bool"
    /\ current_question = MaxQuestions
    /\ Len(questions) = MaxQuestions
    /\ start_time = MaxClock

\* C25: in the window, Submit Answer with no answer selected calls nothing of
\* the engine: score, position and history stay and the same question stays
\* on screen; the index -1 never reaches the engine, and the position moves
\* only by a submit of the answer selected.
C25_NoSelectionNoSubmit ==
    [][/\ screen = "question" /\ selected_answer = 0 - 1
          => /\ call'.op # "submit_answer"
             /\ UNCHANGED <<questions, current_question, score, start_time,
                            question_times, user_answers>>
             /\ current_question_data' = current_question_data
             /\ screen' = "question"
       /\ call'.op = "submit_answer"
          => /\ call'.answer_index = selected_answer
             /\ call'.answer_index >= 0
       /\ current_question' = current_question + 1
          => /\ call'.op = "submit_answer"
             /\ selected_answer # 0 - 1]_vars

\* Submit Answer was pressed with nothing selected on the second question
C25_Witness ==
    /\ call.op = "showwarning"
    /\ screen = "question"
    /\ selected_answer = 0 - 1
    /\ current_question = 1
    /\ Len(user_answers) = 1

====
